---- MODULE Spec2Model ----
(***************************************************************************)
(* Model of the Hero component's double-video crossfade loop               *)
(* (src/unnamed/part_000, the useEffect of lines 22-148) together with the *)
(* parts of the browser it drives: two <video> elements, two wrapper       *)
(* layers, requestAnimationFrame and the loadedmetadata event.             *)
(*                                                                         *)
(* Units.  The clock performance.now() is counted in units of 200 ms, so   *)
(* fadeSeconds * 1000 = 1400 ms is 7 units.  A media position is counted   *)
(* in quarters of such a unit (50 ms of media), so that one clock unit at  *)
(* playbackRate 0.75 advances a position by 3 and at rate 1.0 by 4.        *)
(* An opacity is the numerator of a fraction over OpacityOne = 7^3.        *)
(***************************************************************************)
EXTENDS Integers, FiniteSets, Sequences, TLC

\* ---- bounds of the model ----
\* clock units the model runs beyond one play-through of the clip
Horizon == 8
\* effect runs (mount and re-runs) in one behaviour
MaxRuns == 3
\* latest clock reading at which an element's metadata still arrives
MaxLoadDelay == 1

\* ---- program constants ----
\* fadeSeconds = 1.4, in clock units of 200 ms
fadeSeconds == 7
\* playbackRate = 0.75, in quarters per clock unit
playbackRate == 3
\* opacity '1' as a numerator: fadeSeconds^3
OpacityOne == fadeSeconds * fadeSeconds * fadeSeconds

\* durations of the clip, in clock units: 1.0 s, 2.0 s and 10.0 s
Durations == {5, 10, 50}

Videos == {"a", "b"}

Min(x, y) == IF x < y THEN x ELSE y
Max(x, y) == IF x > y THEN x ELSE y

VARIABLES
  now,                \* performance.now()
  mediaDur,           \* duration of the resource both <video>s load
  playAllowed,        \* whether the browser lets play() start playback
  shouldReduceMotion, \* value of useReducedMotion() at the last effect run
  phase,              \* "mounted" or "unmounted"
  run,                \* number of times the effect body has run
  activeIdxRef, isFadingRef, fadeStartRef, rafRef,
  scheduled,          \* handles of the animation-frame callbacks requested
  video,              \* the two HTMLVideoElements
  opacity,            \* style.opacity of the two wrappers
  listeners,          \* loadedmetadata listeners, by the run that added them
  last,               \* the operation that produced this state
  written,            \* opacities the last progress step wrote: <<active, other>>
  fadeFrom            \* ct the frame that triggered the last fade read

\* the state of the hero's crossfade
heroVars == <<now, mediaDur, playAllowed, shouldReduceMotion, phase, run,
              activeIdxRef, isFadingRef, fadeStartRef, rafRef, scheduled,
              video, opacity, listeners, last, written, fadeFrom>>

\* One instance of a parallax hook of src/hooks/useParallax.ts and the page
\* around it.  Lengths are counted in units of 100 px.
VARIABLES
  hookKind,             \* which hook: "scroll", "section" or "pointer"
  mediaReduce,          \* matchMedia('(prefers-reduced-motion: reduce)').matches
  prefersReducedMotion, \* the value the effect read when it ran
  hookPhase,            \* "mounted" or "unmounted"
  isVisibleRef, rafIdRef,  \* rafIdRef: 0 stands for null
  pending,              \* handles of the frame callbacks requested
  observing,            \* the IntersectionObserver observes the element
  reported,             \* the observer has delivered its first entry
  listening,            \* the scroll (mousemove/mouseleave) listener is registered
  transform,            \* the transform state of the scroll and section hooks
  tilt,                 \* style and imageStyle of the pointer hook
  rectTop, rectHeight,  \* getBoundingClientRect() of the card / section
  innerHeight,          \* window.innerHeight
  plast                 \* the operation that produced this state

parallaxVars == <<hookKind, mediaReduce, prefersReducedMotion, hookPhase,
                  isVisibleRef, rafIdRef, pending, observing, reported,
                  listening, transform, tilt, rectTop, rectHeight,
                  innerHeight, plast>>

\* The site header (src/services/Header.tsx).  Scroll positions are pixels.
VARIABLES
  scrollY,       \* window.scrollY
  isScrolled, isHidden,
  lastYRef,
  headerReduce,  \* useReducedMotion() as the effect's closure captured it
  headerPhase,   \* "mounted" or "unmounted"; the listener is on while mounted
  hlast          \* the operation that produced this state

headerVars == <<scrollY, isScrolled, isHidden, lastYRef, headerReduce,
                headerPhase, hlast>>

\* no header is mounted
HeaderIdle ==
  /\ scrollY = 0
  /\ isScrolled = FALSE
  /\ isHidden = FALSE
  /\ lastYRef = 0
  /\ headerReduce = FALSE
  /\ headerPhase = "unmounted"
  /\ hlast = "none"

\* The preloader (src/Preloader.tsx).  Its clock counts units of 100 ms.
VARIABLES
  ptime,            \* time since the preloader mounted
  isVisible, isExiting,
  timers,           \* pending setTimeout callbacks: <<name, time due>>
  exitAt,           \* when isExiting was set; -1 before that
  preloaderPhase,   \* "mounted" or "unmounted"
  plLast            \* the operation that produced this state

preloaderVars == <<ptime, isVisible, isExiting, timers, exitAt,
                   preloaderPhase, plLast>>

\* no preloader is mounted
PreloaderIdle ==
  /\ ptime = 0
  /\ isVisible = TRUE
  /\ isExiting = FALSE
  /\ timers = {}
  /\ exitAt = 0 - 1
  /\ preloaderPhase = "unmounted"
  /\ plLast = "none"

\* The contact form (Contact in src/App.tsx).
VARIABLES
  lang,        \* the language prop
  formData,    \* name, email, phone, service, message
  status,      \* 'idle', 'submitting' or 'success'
  inflight,    \* sendToKommo calls that have not settled
  clast        \* the operation that produced this state

contactVars == <<lang, formData, status, inflight, clast>>

\* no contact form is mounted
ContactIdle ==
  /\ lang = "en"
  /\ formData = [name |-> "", email |-> "", phone |-> "",
                 service |-> <<"en", 1>>, message |-> ""]
  /\ status = "idle"
  /\ inflight = 0
  /\ clast = "none"

\* One CountUp (src/App.tsx).  Its clock counts units of 100 ms.
VARIABLES
  cuNow,        \* performance.now() and the timestamp of frames
  cuValue,      \* the value prop
  display,
  cuReduce,     \* the media query matched when the effect ran
  started, cuStartT,
  cuRaf,        \* the effect's raf variable; 0 before any request
  cuPending,    \* handles of the frame callbacks requested
  cuObserving,  \* the IntersectionObserver observes the element
  cuStarts,     \* how many times an animation has been started
  cuPhase,      \* "mounted" or "unmounted"
  cuLast        \* the operation that produced this state

countVars == <<cuNow, cuValue, display, cuReduce, started, cuStartT, cuRaf,
               cuPending, cuObserving, cuStarts, cuPhase, cuLast>>

\* no CountUp is mounted
CountIdle ==
  /\ cuNow = 0
  /\ cuValue = 0
  /\ display = 0
  /\ cuReduce = FALSE
  /\ started = FALSE
  /\ cuStartT = 0
  /\ cuRaf = 0
  /\ cuPending = {}
  /\ cuObserving = FALSE
  /\ cuStarts = 0
  /\ cuPhase = "unmounted"
  /\ cuLast = "none"

\* The App effect that starts Lenis smooth scrolling (src/App.tsx).  Its
\* clock counts frames' timestamps in units of 100 ms.
VARIABLES
  lnow,            \* the timestamp a frame callback would receive
  lenisMedia,      \* what the media query matches now
  lenisReduce,     \* the effect's prefersReducedMotion, read when it ran
  lenisRef,        \* "null", "live" or "destroyed": the instance in lenisRef
  lenisScheduled,  \* a callback `raf` is requested and has not run
  lenisTime,       \* the argument of the last lenis.raf call, -1 before any
  rafAfterDestroy, \* lenis.raf has been called on the destroyed instance
  appPhase,        \* "mounted" or "unmounted"
  lenisLast        \* the operation that produced this state

lenisVars == <<lnow, lenisMedia, lenisReduce, lenisRef, lenisScheduled,
               lenisTime, rafAfterDestroy, appPhase, lenisLast>>

\* no App is mounted
LenisIdle ==
  /\ lnow = 0
  /\ lenisMedia = FALSE
  /\ lenisReduce = FALSE
  /\ lenisRef = "null"
  /\ lenisScheduled = FALSE
  /\ lenisTime = -1
  /\ rafAfterDestroy = FALSE
  /\ appPhase = "unmounted"
  /\ lenisLast = "none"

\* what the steps of one component leave alone
otherThanHero == <<parallaxVars, headerVars, preloaderVars, contactVars,
    countVars, lenisVars>>
otherThanParallax == <<heroVars, headerVars, preloaderVars, contactVars,
    countVars, lenisVars>>
otherThanHeader == <<heroVars, parallaxVars, preloaderVars, contactVars,
    countVars, lenisVars>>
otherThanPreloader == <<heroVars, parallaxVars, headerVars, contactVars,
    countVars, lenisVars>>
otherThanContact == <<heroVars, parallaxVars, headerVars, preloaderVars,
    countVars, lenisVars>>
otherThanCount == <<heroVars, parallaxVars, headerVars, preloaderVars,
    contactVars, lenisVars>>
otherThanLenis == <<heroVars, parallaxVars, headerVars, preloaderVars,
    contactVars, countVars>>

vars == <<heroVars, parallaxVars, headerVars, preloaderVars, contactVars,
    countVars, lenisVars>>

\* ---- the media element, as the HTML standard defines it ----

\* a <video autoPlay muted playsInline preload="metadata"> before any script
FreshVideo ==
  [paused |-> TRUE, currentTime |-> 0, loop |-> FALSE,
   playbackRate |-> 4, autoplaying |-> TRUE, meta |-> FALSE]

\* media duration in quarters
DurQ == 4 * mediaDur

\* the clock reading the model stops at: the clip played once through at
\* playbackRate, and Horizon more
TimeLimit == (DurQ \div playbackRate) + Horizon

\* v.pause()
pause(vs, v) == [vs EXCEPT ![v].paused = TRUE, ![v].autoplaying = FALSE]

\* v.play(): refused when playback is not allowed; an ended clip seeks to 0
play(vs, v, allowed, dq) ==
  IF ~allowed THEN vs
  ELSE [vs EXCEPT ![v].paused = FALSE, ![v].autoplaying = FALSE,
                  ![v].currentTime =
                     IF vs[v].meta /\ vs[v].currentTime >= dq THEN 0
                     ELSE vs[v].currentTime]

\* one clock unit of playback of element e
playOn(e, dq) ==
  IF e.paused \/ ~e.meta THEN e
  ELSE LET pos == e.currentTime + e.playbackRate
       IN IF pos < dq THEN [e EXCEPT !.currentTime = pos]
          ELSE IF e.loop THEN [e EXCEPT !.currentTime = 0]
          ELSE [e EXCEPT !.currentTime = dq, !.paused = TRUE]

\* requestAnimationFrame: a handle no pending callback has.  The handle of
\* a callback that ran or was cancelled is kept in rafRef only, which the
\* requesting statement overwrites, so it may be handed out again.
NewHandle(used) ==
  CHOOSE n \in 1..(Cardinality(used) + 1) :
     n \notin used /\ \A m \in 1..(n - 1) : m \in used

\* ---- the functions of the effect ----

\* applyRate that leaves the clip at full speed
applyRate_full(vs, v) == [vs EXCEPT ![v].playbackRate = 4]

applyRate(vs, v) == [vs EXCEPT ![v].playbackRate = playbackRate]

setInitialVis(op) == [op EXCEPT !["a"] = OpacityOne, !["b"] = 0]

safePlay(vs, v, allowed, dq) == play(vs, v, allowed, dq)

\* resetVideo that pauses but leaves the position where it was
resetVideo_noSeek(vs, v) == pause(vs, v)

resetVideo(vs, v) == [pause(vs, v) EXCEPT ![v].currentTime = 0]

\* startOther that plays the other clip from wherever it stands
startOther_noReset(vs, other, allowed, dq) == safePlay(vs, other, allowed, dq)

startOther(vs, other, allowed, dq) ==
  safePlay(resetVideo(vs, other), other, allowed, dq)

\* the clamp without its upper limit
clampP_noUpper(t) == Max(0, t)

\* Math.min(1, Math.max(0, t)), with t and the result in units of 1/fadeSeconds
clampP(t) == Min(fadeSeconds, Max(0, t))

\* the easing with a wrong coefficient: p * p * (3 - 3 * p)
eased_wrongCoeff(p) == p * p * (3 * fadeSeconds - 3 * p)

\* p * p * (3 - 2 * p), as a numerator over OpacityOne
eased(p) == p * p * (3 * fadeSeconds - 2 * p)

\* the duration test that lets an unknown duration through
finitePositive_always(e, dq) == TRUE

\* Number.isFinite(dur) && dur > 0: the duration is NaN until the metadata
\* of the element has loaded
finitePositive(e, dq) == e.meta /\ dq > 0

\* a progress step placed before the trigger check: it sees isFadingRef as
\* the frame found it
progressRuns_beforeTrigger(fading, trigger) == fading

\* whether the fade-progress step runs (if (isFadingRef.current), line 121):
\* it comes after the trigger check, which may just have set the flag
progressRuns(fading, trigger) == fading \/ trigger

\* the trigger point without the clamp at 0
triggerAt_unclamped(dq) == dq - 4 * fadeSeconds

\* a tick that requests no next frame
requestNext_none(sch, id, h) == sch \ {id}

\* the callback id has run; requestAnimationFrame(tick) adds handle h
requestNext(sch, id, h) == (sch \ {id}) \cup {h}

\* a cleanup that removes the listeners of the run before
cleanupListeners_stale(ls, r) == [v \in Videos |-> ls[v] \ {r - 1}]

\* the trigger point with the fade length subtracted twice
triggerAt_early(dq) == Max(0, dq - 8 * fadeSeconds)

\* Math.max(0, dur - fadeSeconds), in quarters
triggerAt(dq) == Max(0, dq - 4 * fadeSeconds)

\* a cleanup that does not cancel the frame callback
cleanupScheduled_noCancel(sch, ref) == sch

\* a cleanup that removes the listener of element a only
cleanupListeners_onlyA(ls, r) == [ls EXCEPT !["a"] = ls["a"] \ {r}]

\* the cleanup the crossfade branch returns
cleanupScheduled(sch, ref) == IF ref # 0 THEN sch \ {ref} ELSE sch

cleanupListeners(ls, r) == [v \in Videos |-> ls[v] \ {r}]

\* the effect body without the early return of the reduced-motion branch
Effect_noBypass(vs, op, ls, sch, ref, reduce, r, allowed, dq) ==
  LET v0 == [vs EXCEPT !["a"].loop = FALSE, !["b"].loop = FALSE]
      v1 == [v0 EXCEPT !["a"].playbackRate = playbackRate,
                       !["b"].playbackRate = playbackRate]
      v2 == play(pause([v1 EXCEPT !["b"].currentTime = 0], "b"),
                 "a", allowed, dq)
      h == NewHandle(sch)
  IN [video |-> v2,
      opacity |-> [op EXCEPT !["a"] = OpacityOne, !["b"] = 0],
      listeners |-> [v \in Videos |-> ls[v] \cup {r}],
      scheduled |-> sch \cup {h}, rafRef |-> h]

\* the effect body, run number r, on the elements vs, wrappers op,
\* listeners ls and frame callbacks sch
Effect(vs, op, ls, sch, ref, reduce, r, allowed, dq) ==
  IF reduce
  THEN [video |-> play([vs EXCEPT !["a"].loop = TRUE, !["b"].loop = FALSE,
                                  !["a"].playbackRate = playbackRate],
                       "a", allowed, dq),
        opacity |-> [op EXCEPT !["a"] = OpacityOne, !["b"] = 0],
        listeners |-> ls, scheduled |-> sch, rafRef |-> ref]
  ELSE LET v0 == [vs EXCEPT !["a"].loop = FALSE, !["b"].loop = FALSE]
           v1 == applyRate(applyRate(v0, "a"), "b")
           v2 == safePlay(resetVideo(v1, "b"), "a", allowed, dq)
           h == NewHandle(sch)
       IN [video |-> v2,
           opacity |-> setInitialVis(op),
           listeners |-> [v \in Videos |-> ls[v] \cup {r}],
           scheduled |-> sch \cup {h}, rafRef |-> h]

\* ---- the parallax hooks (src/hooks/useParallax.ts) ----

\* bound: the element's top edge lies within MaxTop units of the viewport's
MaxTop == 8
\* bound: half the width and height of the card the pointer moves over
CardHalf == 1

\* translateYRange the service card passes to useScrollParallax
cardRange == 14
\* translateYRange the about section passes to useParallaxSection
sectionRange == 18
\* progress * 16 of the About video parallax
videoRange == 16

Kinds == {"scroll", "section", "pointer"}
\* the effects that run a frame loop: the two scroll hooks and the About
\* section's video parallax (src/App.tsx, lines 337-400)
FrameKinds == {"scroll", "section", "video"}
Tops == (0 - MaxTop)..MaxTop
\* heights of the element and of the viewport (200..600 px)
Heights == {2, 3}
ViewportHeights == {4, 6}

Abs(x) == IF x < 0 THEN 0 - x ELSE x

translateYRange(k) ==
  IF k = "scroll" THEN cardRange
  ELSE IF k = "section" THEN sectionRange ELSE videoRange

\* useScrollParallax scales (enableZoom: true); useParallaxSection does not
enableZoom(k) == k = "scroll"

\* rootMargin of the observer: '200px' in useParallaxSection, else '100px'
rootMargin(k) == IF k = "section" THEN 2 ELSE 1

\* the denominator progress is counted over: 2 * viewportHeight
progressDen(vh) == 2 * vh

\* (viewportCenter - cardCenter) / viewportHeight, as a numerator over
\* progressDen(vh)
rawProgress(top, height, vh) == vh - (2 * top + height)

\* the clamp without its lower limit
clampProgress_noLower(raw, den) == Min(den, raw)

\* Math.max(-1, Math.min(1, rawProgress))
clampProgress(raw, den) == Max(0 - den, Min(den, raw))

progress(top, height, vh) ==
  clampProgress(rawProgress(top, height, vh), progressDen(vh))

\* progress * translateYRange, over the denominator of progress
translateY(p, k) == p * translateYRange(k)

\* 1.05 + (1 - Math.abs(progress)) * 0.02, or 1.05 without zoom, as a
\* numerator over 100 * den
scale(p, den, k) ==
  IF enableZoom(k) THEN 105 * den + (den - Abs(p)) * 2 ELSE 105 * den

\* the initial state of useState: 'translate3d(0, 0, 0) scale(1.05)' for the
\* card image and 'translate3d(0, 0, 0)' for the section image
InitialTransform(k) ==
  [form |-> "static", ty |-> 0, den |-> 1,
   scale |-> IF enableZoom(k) THEN 105 ELSE 100]

\* the string setTransform receives: ty / den px, scale / (100 * den), and
\* no scale() at all (scale 1) in the section hook
computedTransform(k, top, height, vh) ==
  LET p == progress(top, height, vh)
      den == progressDen(vh)
  IN [form |-> "parallax", ty |-> translateY(p, k), den |-> den,
      scale |-> IF k = "scroll" THEN scale(p, den, k) ELSE 100 * den]

\* updateParallax() with pend the callbacks still pending
updateParallax(k, vis, tr, pend, top, height, vh) ==
  IF ~vis
  THEN [rafIdRef |-> 0, transform |-> tr, pending |-> pend, wrote |-> FALSE]
  ELSE LET h == NewHandle(pend)
       IN [rafIdRef |-> h, transform |-> computedTransform(k, top, height, vh),
           pending |-> pend \cup {h}, wrote |-> TRUE]

\* an observer callback that leaves the frame callback scheduled
onIntersect_noCancel(isIntersecting, raf, pend) ==
  IF isIntersecting /\ raf = 0
  THEN [rafIdRef |-> NewHandle(pend), pending |-> pend \cup {NewHandle(pend)}]
  ELSE [rafIdRef |-> raf, pending |-> pend]

\* the observer callback, for one entry
onIntersect(isIntersecting, raf, pend) ==
  IF isIntersecting
  THEN IF raf = 0
       THEN [rafIdRef |-> NewHandle(pend),
             pending |-> pend \cup {NewHandle(pend)}]
       ELSE [rafIdRef |-> raf, pending |-> pend]
  ELSE IF raf # 0
       THEN [rafIdRef |-> 0, pending |-> pend \ {raf}]
       ELSE [rafIdRef |-> raf, pending |-> pend]

handleScroll(vis, raf, pend) ==
  IF vis /\ raf = 0
  THEN [rafIdRef |-> NewHandle(pend), pending |-> pend \cup {NewHandle(pend)}]
  ELSE [rafIdRef |-> raf, pending |-> pend]

\* style and imageStyle before any mouse event, and after mouseleave
InitialTilt == [rotateX |-> 0, rotateY |-> 0, offsetX |-> 0, offsetY |-> 0]

\* handleMouseMove for a pointer at (x, y) from the card's corner; the card
\* is 2 * CardHalf wide and high, and the values are numerators over CardHalf
handleMouseMove(x, y) ==
  [rotateX |-> (y - CardHalf) * (0 - 2), rotateY |-> (x - CardHalf) * 2,
   offsetX |-> (x - CardHalf) * 8, offsetY |-> (y - CardHalf) * 8]

\* the effect body without the early return on prefers-reduced-motion
parallaxEffect_noBypass(k, reduce, vis, tr, pend, top, height, vh) ==
  IF k = "pointer"
  THEN [observing |-> FALSE, listening |-> TRUE, rafIdRef |-> 0,
        transform |-> tr, pending |-> pend]
  ELSE LET u == updateParallax(k, vis, tr, pend, top, height, vh)
       IN [observing |-> TRUE, listening |-> TRUE, rafIdRef |-> u.rafIdRef,
           transform |-> u.transform, pending |-> u.pending]

\* the effect body of a hook of kind k on its first run (rafIdRef is null):
\* nothing under reduced motion; otherwise the listeners and, in the scroll
\* and section hooks, the observer and one direct updateParallax()
parallaxEffect(k, reduce, vis, tr, pend, top, height, vh) ==
  IF reduce
  THEN [observing |-> FALSE, listening |-> FALSE, rafIdRef |-> 0,
        transform |-> tr, pending |-> pend]
  ELSE IF k = "pointer"
  THEN [observing |-> FALSE, listening |-> TRUE, rafIdRef |-> 0,
        transform |-> tr, pending |-> pend]
  ELSE LET u == updateParallax(k, vis, tr, pend, top, height, vh)
       IN [observing |-> TRUE, listening |-> TRUE, rafIdRef |-> u.rafIdRef,
           transform |-> u.transform, pending |-> u.pending]

\* a cleanup that cancels no frame callback
cancelFrame_none(pend, raf) == pend

\* if (rafIdRef.current) cancelAnimationFrame(rafIdRef.current)
cancelFrame(pend, raf) == IF raf # 0 THEN pend \ {raf} ELSE pend

\* the element and the root, grown by the margin, intersect or touch
Intersects(k, top, height, vh) ==
  /\ top <= vh + rootMargin(k)
  /\ top + height >= 0 - rootMargin(k)

\* no parallax hook is mounted
ParallaxIdle ==
  /\ hookKind = "scroll"
  /\ mediaReduce = FALSE
  /\ prefersReducedMotion = FALSE
  /\ hookPhase = "unmounted"
  /\ isVisibleRef = FALSE
  /\ rafIdRef = 0
  /\ pending = {}
  /\ observing = FALSE
  /\ reported = FALSE
  /\ listening = FALSE
  /\ transform = InitialTransform("scroll")
  /\ tilt = InitialTilt
  /\ rectTop = 0
  /\ rectHeight = 2
  /\ innerHeight = 4
  /\ plast = "none"

\* ---- initial state: the component has mounted and the effect has run ----
Init ==
  /\ now = 0
  /\ mediaDur \in Durations
  /\ playAllowed \in BOOLEAN
  /\ shouldReduceMotion \in BOOLEAN
  /\ phase = "mounted"
  /\ run = 1
  /\ activeIdxRef = 0
  /\ isFadingRef = FALSE
  /\ fadeStartRef = 0
  /\ LET e == Effect([v \in Videos |-> FreshVideo],
                     [v \in Videos |-> IF v = "a" THEN OpacityOne ELSE 0],
                     [v \in Videos |-> {}], {}, 0,
                     shouldReduceMotion, 1, playAllowed, 4 * mediaDur)
     IN /\ video = e.video
        /\ opacity = e.opacity
        /\ listeners = e.listeners
        /\ scheduled = e.scheduled
        /\ rafRef = e.rafRef
  /\ last = "effect"
  /\ written = <<>>
  /\ fadeFrom = 0
  /\ ParallaxIdle
  /\ HeaderIdle
  /\ PreloaderIdle
  /\ ContactIdle
  /\ CountIdle
  /\ LenisIdle

\* ---- the browser ----

\* time passes by one clock unit; playing clips advance
Advance ==
  /\ phase = "mounted"
  /\ now < TimeLimit
  /\ now' = now + 1
  /\ video' = [v \in Videos |-> playOn(video[v], DurQ)]
  /\ last' = "advance"
  /\ UNCHANGED <<mediaDur, playAllowed, shouldReduceMotion, phase, run,
                 activeIdxRef, isFadingRef, fadeStartRef, rafRef, scheduled,
                 opacity, listeners, written, fadeFrom>>
  /\ UNCHANGED otherThanHero

\* the metadata of one element arrives: duration becomes known and the
\* loadedmetadata listeners (onMetaA / onMetaB) run
LoadedMetadata(v) ==
  /\ phase = "mounted"
  /\ now <= MaxLoadDelay
  /\ ~video[v].meta
  /\ video' = IF listeners[v] # {}
              THEN applyRate([video EXCEPT ![v].meta = TRUE], v)
              ELSE [video EXCEPT ![v].meta = TRUE]
  /\ last' = "loadedmetadata"
  /\ UNCHANGED <<now, mediaDur, playAllowed, shouldReduceMotion, phase, run,
                 activeIdxRef, isFadingRef, fadeStartRef, rafRef, scheduled,
                 opacity, listeners, written, fadeFrom>>
  /\ UNCHANGED otherThanHero

\* the autoPlay attribute: an element no script has played or paused yet
\* starts by itself once it has data
Autoplay(v) ==
  /\ phase = "mounted"
  /\ video[v].autoplaying /\ video[v].paused /\ video[v].meta /\ playAllowed
  /\ video' = [video EXCEPT ![v].paused = FALSE, ![v].autoplaying = FALSE]
  /\ last' = "autoplay"
  /\ UNCHANGED <<now, mediaDur, playAllowed, shouldReduceMotion, phase, run,
                 activeIdxRef, isFadingRef, fadeStartRef, rafRef, scheduled,
                 opacity, listeners, written, fadeFrom>>
  /\ UNCHANGED otherThanHero

\* ---- the frame callback ----
Tick ==
  \E id \in scheduled :
    LET idx == activeIdxRef
        active == IF idx = 0 THEN "a" ELSE "b"
        other == IF idx = 0 THEN "b" ELSE "a"
        ct == video[active].currentTime
        trigger == /\ ~isFadingRef
                   /\ finitePositive(video[active], DurQ)
                   /\ ct >= triggerAt(DurQ)
        fading1 == progressRuns(isFadingRef, trigger)
        start1 == IF trigger THEN now ELSE fadeStartRef
        v1 == IF trigger THEN startOther(video, other, playAllowed, DurQ)
              ELSE video
        p == clampP(now - start1)
        swap == fading1 /\ p >= fadeSeconds
        h == NewHandle(scheduled \ {id})
    IN /\ isFadingRef' = ((isFadingRef \/ trigger) /\ ~swap)
       /\ fadeStartRef' = start1
       /\ opacity' = IF fading1
                     THEN [opacity EXCEPT ![active] = OpacityOne - eased(p),
                                          ![other] = eased(p)]
                     ELSE opacity
       /\ written' = IF fading1 THEN <<OpacityOne - eased(p), eased(p)>>
                     ELSE written
       /\ fadeFrom' = IF trigger THEN ct ELSE fadeFrom
       /\ video' = IF swap THEN resetVideo(v1, active) ELSE v1
       /\ activeIdxRef' = IF swap THEN 1 - idx ELSE idx
       /\ scheduled' = requestNext(scheduled, id, h)
       /\ rafRef' = h
       /\ last' = IF swap THEN "tick_swap"
                  ELSE IF trigger THEN "tick_trigger"
                  ELSE IF fading1 THEN "tick_fade" ELSE "tick_idle"
       /\ UNCHANGED <<now, mediaDur, playAllowed, shouldReduceMotion, phase,
                      run, listeners>>
       /\ UNCHANGED otherThanHero

\* ---- React ----

\* useReducedMotion() changes: the previous run's cleanup (the crossfade
\* branch returns one, the reduced branch none), then the effect body again
ReducedMotionChange ==
  /\ phase = "mounted"
  /\ run < MaxRuns
  /\ shouldReduceMotion' = ~shouldReduceMotion
  /\ run' = run + 1
  /\ LET sch == IF shouldReduceMotion THEN scheduled
                ELSE cleanupScheduled(scheduled, rafRef)
         ls == IF shouldReduceMotion THEN listeners
               ELSE cleanupListeners(listeners, run)
         e == Effect(video, opacity, ls, sch, rafRef, ~shouldReduceMotion,
                     run + 1, playAllowed, DurQ)
     IN /\ video' = e.video
        /\ opacity' = e.opacity
        /\ listeners' = e.listeners
        /\ scheduled' = e.scheduled
        /\ rafRef' = e.rafRef
  /\ last' = "effect"
  /\ UNCHANGED <<now, mediaDur, playAllowed, phase, activeIdxRef, isFadingRef,
                 fadeStartRef, written, fadeFrom>>
  /\ UNCHANGED otherThanHero

\* the component unmounts: the cleanup of the current run, if it has one
Unmount ==
  /\ phase = "mounted"
  /\ phase' = "unmounted"
  /\ scheduled' = IF shouldReduceMotion THEN scheduled
                  ELSE cleanupScheduled(scheduled, rafRef)
  /\ listeners' = IF shouldReduceMotion THEN listeners
                  ELSE cleanupListeners(listeners, run)
  /\ last' = "cleanup"
  /\ UNCHANGED <<now, mediaDur, playAllowed, shouldReduceMotion, run,
                 activeIdxRef, isFadingRef, fadeStartRef, rafRef, video,
                 opacity, written, fadeFrom>>
  /\ UNCHANGED otherThanHero

\* the cleanup function of the crossfade branch called once more
CleanupAgain ==
  /\ phase = "unmounted"
  /\ ~shouldReduceMotion
  /\ last = "cleanup"
  /\ scheduled' = cleanupScheduled(scheduled, rafRef)
  /\ listeners' = cleanupListeners(listeners, run)
  /\ last' = "cleanup_again"
  /\ UNCHANGED <<now, mediaDur, playAllowed, shouldReduceMotion, phase, run,
                 activeIdxRef, isFadingRef, fadeStartRef, rafRef, video,
                 opacity, written, fadeFrom>>
  /\ UNCHANGED otherThanHero

Next ==
  \/ Advance
  \/ \E v \in Videos : LoadedMetadata(v)
  \/ \E v \in Videos : Autoplay(v)
  \/ Tick
  \/ ReducedMotionChange
  \/ Unmount
  \/ CleanupAgain

Spec == Init /\ [][Next]_vars

TypeOK ==
  /\ now \in 0..TimeLimit
  /\ activeIdxRef \in {0, 1}
  /\ isFadingRef \in BOOLEAN
  /\ \A v \in Videos : opacity[v] \in 0..OpacityOne

\* ---- vocabulary of the properties ----

TickKinds == {"tick_idle", "tick_trigger", "tick_fade", "tick_swap"}

\* the frames in which the fade-progress step ran
ProgressKinds == {"tick_trigger", "tick_fade", "tick_swap"}

\* the slot activeIdxRef names, and the other one
ActiveSlot == IF activeIdxRef = 0 THEN "a" ELSE "b"
OtherSlot == IF activeIdxRef = 0 THEN "b" ELSE "a"

\* the crossfade branch of the effect is the one running
Crossfading == phase = "mounted" /\ ~shouldReduceMotion

\* elapsed times, in clock units, the clamp is probed with
ProbeSpan == 3
ElapsedProbe == (0 - ProbeSpan)..(fadeSeconds + ProbeSpan)

\* C1: in every frame in which the fade-progress step ran, the opacity
\* written to the active layer plus the one written to the other layer is 1
\* and both lie in [0,1]; the same holds of the values the step computes for
\* any elapsed time, negative or beyond fadeSeconds.
C1_ComplementaryOpacity ==
  /\ last \in ProgressKinds =>
       /\ written[1] + written[2] = OpacityOne
       /\ written[1] \in 0..OpacityOne
       /\ written[2] \in 0..OpacityOne
       /\ opacity["a"] + opacity["b"] = OpacityOne
       /\ {opacity["a"], opacity["b"]} = {written[1], written[2]}
  /\ \A t \in ElapsedProbe :
       LET e == eased(clampP(t))
       IN /\ e \in 0..OpacityOne
          /\ (OpacityOne - e) \in 0..OpacityOne
          /\ (t <= 0 => e = 0)
          /\ (t >= fadeSeconds => e = OpacityOne)

\* a frame that ran late: the elapsed time is beyond fadeSeconds and clamped
C1_Witness ==
  /\ last = "tick_swap"
  /\ now - fadeStartRef > fadeSeconds
  /\ written = <<0, OpacityOne>>

\* C2: in the frame where fade progress reaches 1 (a tick while fading with
\* at least fadeSeconds elapsed) the inactive slot becomes the active one, the
\* slot that was active is paused at position 0 and fading becomes false; the
\* active index changes in no other step.
C2_RoleSwap ==
  [][ /\ (last' \in TickKinds /\ isFadingRef
             /\ now - fadeStartRef >= fadeSeconds)
         => /\ activeIdxRef' = 1 - activeIdxRef
            /\ video'[ActiveSlot].paused
            /\ video'[ActiveSlot].currentTime = 0
            /\ ~isFadingRef'
      /\ (activeIdxRef' # activeIdxRef)
         => /\ last' \in TickKinds
            /\ isFadingRef
            /\ now - fadeStartRef >= fadeSeconds ]_vars

\* a swap has just made b the active slot and reset a, which had played
C2_Witness ==
  /\ last = "tick_swap"
  /\ activeIdxRef = 1
  /\ video["a"].paused /\ video["a"].currentTime = 0
  /\ ~video["b"].paused
  /\ fadeFrom > 0

\* C3: across consecutive frames of one fade the opacity written to the
\* incoming layer does not decrease and the one written to the outgoing layer
\* does not increase; the first frame of a fade writes (1, 0) and the frame
\* that ends it writes (0, 1).
C3_MonotonicFade ==
  [][ /\ (last' \in TickKinds /\ isFadingRef)
         => /\ written'[2] >= written[2]
            /\ written'[1] <= written[1]
      /\ (last' \in TickKinds /\ ~isFadingRef /\ isFadingRef')
         => written' = <<OpacityOne, 0>>
      /\ (last' \in TickKinds /\ isFadingRef /\ ~isFadingRef')
         => written' = <<0, OpacityOne>> ]_vars

\* a frame strictly inside a fade
C3_Witness ==
  /\ last = "tick_fade"
  /\ isFadingRef
  /\ written[2] \in 1..(OpacityOne - 1)
  /\ now - fadeStartRef \in 2..(fadeSeconds - 1)

\* C4: whenever the crossfade controller runs and fading is false, the
\* active slot's layer has opacity 1 and the other slot's layer opacity 0.
C4_OpacityOutsideFade ==
  (Crossfading /\ ~isFadingRef) =>
     /\ opacity[ActiveSlot] = OpacityOne
     /\ opacity[OtherSlot] = 0

\* C5: every run of the crossfade branch of the effect begins with slot A
\* active and fading false, slot A playing (when the browser allows
\* playback) and slot B paused at position 0.
C5_StartState ==
  (last = "effect" /\ ~shouldReduceMotion) =>
     /\ activeIdxRef = 0
     /\ ~isFadingRef
     /\ (playAllowed => ~video["a"].paused)
     /\ video["b"].paused /\ video["b"].currentTime = 0

\* C6: whenever the crossfade controller runs and fading is false, the
\* inactive slot is paused at position 0; it plays only while fading.
C6_InactiveIdle ==
  Crossfading =>
     /\ ~isFadingRef =>
          video[OtherSlot].paused /\ video[OtherSlot].currentTime = 0
     /\ ~video[OtherSlot].paused => isFadingRef

\* C7: at most one frame callback is scheduled at any time; once the cleanup
\* has run (unmount, or the switch to reduced motion) none is scheduled, and
\* after unmount no tick runs.
C7_NoCallbackAfterTeardown ==
  /\ [](/\ Cardinality(scheduled) <= 1
        /\ Crossfading => scheduled = {rafRef}
        /\ (phase = "unmounted" \/ shouldReduceMotion) => scheduled = {})
  /\ [][phase = "unmounted" => last' \notin TickKinds]_vars

\* the teardown interrupted a fade
C7_Witness ==
  /\ phase = "unmounted"
  /\ ~shouldReduceMotion
  /\ isFadingRef
  /\ now - fadeStartRef \in 1..(fadeSeconds - 1)
  /\ scheduled = {}

\* C8: running the cleanup a second time leaves what the first run left:
\* no scheduled frame callback and no loadedmetadata listener.
C8_IdempotentStop ==
  [][last' = "cleanup_again" =>
       /\ scheduled' = scheduled /\ scheduled' = {}
       /\ listeners' = listeners
       /\ \A v \in Videos : listeners'[v] = {}
       /\ video' = video /\ opacity' = opacity ]_vars

\* the cleanup of a re-run crossfade has run twice
C8_Witness ==
  /\ last = "cleanup_again"
  /\ run > 1
  /\ scheduled = {}
  /\ rafRef # 0

\* C9: a controller created with the reduced-motion flag set schedules no
\* frame callback, never starts a fade and keeps slot A active, with layer A
\* at opacity 1 and layer B at 0, however much time passes.
C9_ReducedMotionBypass ==
  /\ [](shouldReduceMotion =>
          /\ scheduled = {}
          /\ opacity["a"] = OpacityOne /\ opacity["b"] = 0
          /\ last \notin TickKinds
          /\ run = 1 => (~isFadingRef /\ activeIdxRef = 0 /\ rafRef = 0))
  /\ [][(shouldReduceMotion /\ shouldReduceMotion') =>
          (isFadingRef' = isFadingRef /\ activeIdxRef' = activeIdxRef)]_vars

\* mounted with reduced motion, duration known, and the clip played once
\* through and beyond
C9_Witness ==
  /\ shouldReduceMotion /\ run = 1
  /\ video["a"].meta /\ ~video["a"].paused
  /\ now > mediaDur + fadeSeconds

\* ---- C10: the end-to-end scenario, clip of 10 s ----

\* the scenario's clip: 10 s, in clock units
ScenarioClip == mediaDur = 5 * 10

\* 8.6 s, in quarters
ScenarioTrigger == 4 * (5 * 10 - fadeSeconds)

\* the fade began in the first frame after slot A passed 8.6 s
ScenarioFade ==
  /\ ScenarioClip /\ activeIdxRef = 0 /\ isFadingRef
  /\ fadeFrom \in ScenarioTrigger..(ScenarioTrigger + playbackRate - 1)

C11_TriggerClamp ==
  /\ [](\A d \in 1..(2 * fadeSeconds) :
          /\ triggerAt(4 * d) >= 0
          /\ (d <= fadeSeconds => triggerAt(4 * d) = 0)
          /\ (d > fadeSeconds => triggerAt(4 * d) = 4 * (d - fadeSeconds)))
  /\ [][(last' \in TickKinds /\ mediaDur <= fadeSeconds
           /\ ~isFadingRef /\ video[ActiveSlot].meta)
        => /\ isFadingRef'
           /\ fadeStartRef' = now
           /\ fadeFrom' = video[ActiveSlot].currentTime ]_vars

\* a clip of 1.0 s began a fade at a position beyond 0
C11_Witness ==
  /\ last = "tick_trigger"
  /\ mediaDur <= fadeSeconds
  /\ triggerAt(DurQ) = 0
  /\ fadeFrom > 0
  /\ isFadingRef

\* ---- C13: the outgoing clip at the end of a fade ----

\* the frame that completes a fade of a clip longer than the fade
CompletingFrame ==
  /\ last' \in TickKinds
  /\ mediaDur > fadeSeconds
  /\ isFadingRef
  /\ now - fadeStartRef >= fadeSeconds

C14_PlayFailureSwallowed ==
  [][last' \in TickKinds =>
       /\ Cardinality(scheduled') = 1
       /\ (~isFadingRef /\ isFadingRef') =>
            /\ video'[OtherSlot].currentTime = 0
            /\ video'[OtherSlot].paused = ~playAllowed
       /\ (isFadingRef \/ isFadingRef') =>
            written' = <<OpacityOne - eased(clampP(now - fadeStartRef')),
                         eased(clampP(now - fadeStartRef'))>>
       /\ (isFadingRef /\ now - fadeStartRef >= fadeSeconds) =>
            (activeIdxRef' = 1 - activeIdxRef /\ ~isFadingRef') ]_vars

\* a fade ran to its end although the clip it faded to never started
C14_Witness ==
  /\ last = "tick_swap"
  /\ ~playAllowed
  /\ video[ActiveSlot].paused
  /\ opacity[ActiveSlot] = OpacityOne
  /\ Cardinality(scheduled) = 1

\* ---- C15: the duration is not known ----

\* C15: a frame that is not fading and finds the active slot's duration
\* unknown begins no fade, leaves opacities, active index and both clips as
\* they are, and requests the next frame.
C15_UnknownDuration ==
  [][(last' \in TickKinds /\ ~isFadingRef /\ ~video[ActiveSlot].meta)
     => /\ ~isFadingRef'
        /\ opacity' = opacity
        /\ activeIdxRef' = activeIdxRef
        /\ video' = video
        /\ Cardinality(scheduled') = 1
        /\ last' = "tick_idle" ]_vars

\* a frame ran with metadata that will not arrive any more
C15_Witness ==
  /\ last = "tick_idle"
  /\ ~video[ActiveSlot].meta
  /\ now > MaxLoadDelay
  /\ ~isFadingRef
  /\ Cardinality(scheduled) = 1

\* ---- C16: the frame loop ----

\* C16: every tick, whichever branch it takes, ends with exactly one frame
\* callback scheduled, the one rafRef names; the callbacks go away only in
\* the cleanup, and while the crossfade branch runs one is always scheduled.
C16_UnconditionalReschedule ==
  /\ [][last' \in TickKinds =>
          (Cardinality(scheduled') = 1 /\ scheduled' = {rafRef'})]_vars
  /\ [][(scheduled # {} /\ scheduled' = {}) =>
          last' \in {"effect", "cleanup"}]_vars
  /\ [](Crossfading => scheduled # {})

\* the tick that took the longest path, the swap, has rescheduled
C16_Witness ==
  /\ last = "tick_swap"
  /\ scheduled = {rafRef}
  /\ activeIdxRef = 0
  /\ run = 1

\* ---- C17: the loadedmetadata listeners ----

\* C17: while the crossfade branch runs each element carries exactly the
\* listener the current run added; after the cleanup, whether by unmount or
\* by the switch to reduced motion, no listener is left.
C17_ListenerBalance ==
  /\ [](Crossfading => \A v \in Videos : listeners[v] = {run})
  /\ []((phase = "unmounted" \/ shouldReduceMotion) =>
          \A v \in Videos : listeners[v] = {})

\* the crossfade branch has been started and torn down twice
C17_Witness ==
  /\ phase = "unmounted"
  /\ ~shouldReduceMotion
  /\ run = 3
  /\ \A v \in Videos : listeners[v] = {}

\* ---- the loop without a horizon ----

\* The code reads the clock only in now - fadeStartRef, and only while a
\* fade runs (lines 115 and 122), and clamps that difference at fadeSeconds.
\* The clock of the unbounded loop is therefore kept relative to the start
\* of the fade, and stops counting where the clamp stops looking.
AdvanceLive ==
  /\ phase = "mounted"
  /\ now' = IF isFadingRef THEN Min(now - fadeStartRef + 1, fadeSeconds)
            ELSE 0
  /\ fadeStartRef' = 0
  /\ video' = [v \in Videos |-> playOn(video[v], DurQ)]
  /\ last' = "advance"
  /\ UNCHANGED <<mediaDur, playAllowed, shouldReduceMotion, phase, run,
                 activeIdxRef, isFadingRef, rafRef, scheduled,
                 opacity, listeners, written, fadeFrom>>
  /\ UNCHANGED otherThanHero

\* every play request succeeds and the clip is longer than the fade
InitLive ==
  /\ Init
  /\ playAllowed
  /\ mediaDur > fadeSeconds

NextLive ==
  \/ AdvanceLive
  \/ \E v \in Videos : LoadedMetadata(v)
  \/ \E v \in Videos : Autoplay(v)
  \/ Tick
  \/ ReducedMotionChange
  \/ Unmount
  \/ CleanupAgain

\* frames keep firing, time passes, and the duration becomes known
SpecLive ==
  /\ InitLive
  /\ [][NextLive]_vars
  /\ WF_vars(Tick)
  /\ WF_vars(AdvanceLive)
  /\ \A v \in Videos : WF_vars(LoadedMetadata(v))

\* C12: while the crossfade branch runs, a frame that begins a new fade
\* always comes, and every fade that has begun reaches the frame that
\* completes it and swaps the roles.
C12_EndlessAlternation ==
  /\ [](Crossfading /\ ~isFadingRef => <>(isFadingRef \/ ~Crossfading))
  /\ [](Crossfading /\ isFadingRef => <>(last = "tick_swap" \/ ~Crossfading))

\* C12, first run of the effect only: the same, as long as the effect has
\* not run again
C12_FirstRunAlternation ==
  /\ [](Crossfading /\ run = 1 /\ ~isFadingRef
          => <>(isFadingRef \/ ~Crossfading \/ run > 1))
  /\ [](Crossfading /\ run = 1 /\ isFadingRef
          => <>(last = "tick_swap" \/ ~Crossfading \/ run > 1))

\* ---- one parallax hook on the page ----

\* the hero is not on the page
HeroIdle ==
  /\ now = 0
  /\ mediaDur = 50
  /\ playAllowed = FALSE
  /\ shouldReduceMotion = FALSE
  /\ phase = "unmounted"
  /\ run = 0
  /\ activeIdxRef = 0
  /\ isFadingRef = FALSE
  /\ fadeStartRef = 0
  /\ rafRef = 0
  /\ scheduled = {}
  /\ video = [v \in Videos |-> FreshVideo]
  /\ opacity = [v \in Videos |-> IF v = "a" THEN OpacityOne ELSE 0]
  /\ listeners = [v \in Videos |-> {}]
  /\ last = "none"
  /\ written = <<>>
  /\ fadeFrom = 0

\* the component has mounted and the hook's effect has run once
InitParallax ==
  /\ HeroIdle
  /\ HeaderIdle
  /\ PreloaderIdle
  /\ ContactIdle
  /\ CountIdle
  /\ LenisIdle
  /\ hookKind \in Kinds \cup FrameKinds
  /\ mediaReduce \in BOOLEAN
  /\ prefersReducedMotion = mediaReduce
  /\ hookPhase = "mounted"
  /\ isVisibleRef = FALSE
  /\ reported = FALSE
  /\ rectTop \in (IF hookKind = "pointer" THEN {0} ELSE Tops)
  /\ rectHeight \in (IF hookKind = "pointer" THEN {2 * CardHalf} ELSE Heights)
  /\ innerHeight \in (IF hookKind = "pointer" THEN {4} ELSE ViewportHeights)
  /\ LET e == parallaxEffect(hookKind, mediaReduce, FALSE,
                             InitialTransform(hookKind), {},
                             rectTop, rectHeight, innerHeight)
     IN /\ observing = e.observing
        /\ listening = e.listening
        /\ rafIdRef = e.rafIdRef
        /\ pending = e.pending
        /\ transform = e.transform
  /\ tilt = InitialTilt
  /\ plast = "effect"

\* the page scrolls: the element moves, and the scroll listener runs
Scroll ==
  /\ hookPhase = "mounted"
  /\ \E t \in (IF hookKind = "pointer" THEN {rectTop} ELSE Tops \ {rectTop}) :
       rectTop' = t
  /\ LET r == IF listening /\ hookKind # "pointer"
              THEN handleScroll(isVisibleRef, rafIdRef, pending)
              ELSE [rafIdRef |-> rafIdRef, pending |-> pending]
     IN /\ rafIdRef' = r.rafIdRef
        /\ pending' = r.pending
  /\ plast' = "scroll"
  /\ UNCHANGED <<hookKind, mediaReduce, prefersReducedMotion, hookPhase,
                 isVisibleRef, observing, reported, listening, transform,
                 tilt, rectHeight, innerHeight>>
  /\ UNCHANGED otherThanParallax

\* the observer delivers an entry: its first one, or a change of the
\* element's intersection with the root grown by rootMargin
IntersectionChange ==
  /\ hookPhase = "mounted"
  /\ observing
  /\ LET isIntersecting ==
           Intersects(hookKind, rectTop, rectHeight, innerHeight)
         r == onIntersect(isIntersecting, rafIdRef, pending)
     IN /\ ~reported \/ isIntersecting # isVisibleRef
        /\ isVisibleRef' = isIntersecting
        /\ rafIdRef' = r.rafIdRef
        /\ pending' = r.pending
        /\ plast' = IF isIntersecting THEN "intersect_in" ELSE "intersect_out"
  /\ reported' = TRUE
  /\ UNCHANGED <<hookKind, mediaReduce, prefersReducedMotion, hookPhase,
                 observing, listening, transform, tilt, rectTop, rectHeight,
                 innerHeight>>
  /\ UNCHANGED otherThanParallax

\* a requested frame callback runs: updateParallax
AnimationFrame ==
  /\ \E id \in pending :
       LET u == updateParallax(hookKind, isVisibleRef, transform,
                               pending \ {id}, rectTop, rectHeight,
                               innerHeight)
       IN /\ rafIdRef' = u.rafIdRef
          /\ transform' = u.transform
          /\ pending' = u.pending
          /\ plast' = IF u.wrote THEN "frame_update" ELSE "frame_skip"
  /\ UNCHANGED <<hookKind, mediaReduce, prefersReducedMotion, hookPhase,
                 isVisibleRef, observing, reported, listening, tilt, rectTop,
                 rectHeight, innerHeight>>
  /\ UNCHANGED otherThanParallax

\* the pointer moves over the card
MouseMove ==
  /\ hookPhase = "mounted"
  /\ hookKind = "pointer"
  /\ \E x \in 0..(2 * CardHalf), y \in 0..(2 * CardHalf) :
       tilt' = IF listening THEN handleMouseMove(x, y) ELSE tilt
  /\ plast' = "mousemove"
  /\ UNCHANGED <<hookKind, mediaReduce, prefersReducedMotion, hookPhase,
                 isVisibleRef, rafIdRef, pending, observing, reported,
                 listening, transform, rectTop, rectHeight, innerHeight>>
  /\ UNCHANGED otherThanParallax

\* the pointer leaves the card: handleMouseLeave
MouseLeave ==
  /\ hookPhase = "mounted"
  /\ hookKind = "pointer"
  /\ tilt' = IF listening THEN InitialTilt ELSE tilt
  /\ plast' = "mouseleave"
  /\ UNCHANGED <<hookKind, mediaReduce, prefersReducedMotion, hookPhase,
                 isVisibleRef, rafIdRef, pending, observing, reported,
                 listening, transform, rectTop, rectHeight, innerHeight>>
  /\ UNCHANGED otherThanParallax

\* the user changes the reduced-motion preference; no effect depends on it
MediaChange ==
  /\ hookPhase = "mounted"
  /\ mediaReduce' = ~mediaReduce
  /\ plast' = "media"
  /\ UNCHANGED <<hookKind, prefersReducedMotion, hookPhase, isVisibleRef,
                 rafIdRef, pending, observing, reported, listening, transform,
                 tilt, rectTop, rectHeight, innerHeight>>
  /\ UNCHANGED otherThanParallax

\* the component unmounts: the cleanup the effect returned, if it returned
\* one
HookUnmount ==
  /\ hookPhase = "mounted"
  /\ hookPhase' = "unmounted"
  /\ observing' = FALSE
  /\ listening' = FALSE
  /\ pending' = IF ~prefersReducedMotion
                THEN cancelFrame(pending, rafIdRef) ELSE pending
  /\ plast' = "cleanup"
  /\ UNCHANGED <<hookKind, mediaReduce, prefersReducedMotion, isVisibleRef,
                 rafIdRef, reported, transform, tilt, rectTop, rectHeight,
                 innerHeight>>
  /\ UNCHANGED otherThanParallax

\* About renders with another value of prefersReducedMotion, a dependency
\* of the video parallax effect: the cleanup of the run before, if that run
\* returned one, and the effect body again, on the refs as they are
EffectRerun ==
  /\ hookPhase = "mounted"
  /\ hookKind = "video"
  /\ mediaReduce # prefersReducedMotion
  /\ prefersReducedMotion' = mediaReduce
  /\ LET pend == IF ~prefersReducedMotion
                 THEN cancelFrame(pending, rafIdRef) ELSE pending
         e == parallaxEffect(hookKind, mediaReduce, isVisibleRef, transform,
                             pend, rectTop, rectHeight, innerHeight)
     IN /\ observing' = e.observing
        /\ listening' = e.listening
        /\ rafIdRef' = IF mediaReduce THEN rafIdRef ELSE e.rafIdRef
        /\ pending' = e.pending
        /\ transform' = e.transform
  /\ reported' = FALSE
  /\ plast' = "rerun"
  /\ UNCHANGED <<hookKind, mediaReduce, hookPhase, isVisibleRef, tilt,
                 rectTop, rectHeight, innerHeight>>
  /\ UNCHANGED otherThanParallax

NextParallax ==
  \/ EffectRerun
  \/ Scroll
  \/ IntersectionChange
  \/ AnimationFrame
  \/ MouseMove
  \/ MouseLeave
  \/ MediaChange
  \/ HookUnmount

SpecParallax == InitParallax /\ [][NextParallax]_vars

\* ---- properties of the parallax hooks ----

\* the hooks that compute a progress
ScrollKinds == {"scroll", "section"}

\* C18: for every element position and viewport height the clamped progress
\* lies in [-1, 1], the translation in [-translateYRange, translateYRange]
\* and the zoomed scale in [1.05, 1.07], 1.07 being reached at progress 0
\* only; and every transform the scroll and section hooks have written
\* keeps these limits.
C18_ClampedProgress ==
  /\ \A top \in Tops, height \in Heights, vh \in ViewportHeights :
       LET p == progress(top, height, vh)
           den == progressDen(vh)
       IN /\ 0 - den <= p /\ p <= den
          /\ \A k \in ScrollKinds :
               /\ 0 - translateYRange(k) * den <= translateY(p, k)
               /\ translateY(p, k) <= translateYRange(k) * den
          /\ 105 * den <= scale(p, den, "scroll")
          /\ scale(p, den, "scroll") <= 107 * den
          /\ (scale(p, den, "scroll") = 107 * den) <=> (p = 0)
  /\ (hookKind \in ScrollKinds /\ transform.form = "parallax") =>
       /\ Abs(transform.ty) <= translateYRange(hookKind) * transform.den
       /\ hookKind = "scroll" =>
            /\ 105 * transform.den <= transform.scale
            /\ transform.scale <= 107 * transform.den

\* a frame has written a transform for an element so far below the viewport
\* centre that the raw progress is under -1, and the translation is
\* -translateYRange
C18_Witness ==
  /\ plast = "frame_update"
  /\ rawProgress(rectTop, rectHeight, innerHeight) < 0 - progressDen(innerHeight)
  /\ transform.ty = 0 - translateYRange(hookKind) * transform.den

\* C19, for the scroll and the section hook: the transform is written only
\* by steps taken while the last
\* reported intersection state is true; the report "not intersecting"
\* leaves no frame callback scheduled and the transform as it was; and
\* while the last report is "not intersecting" no callback is scheduled and
\* no step, scroll or frame, changes the transform.
C19_OnlyWhileVisible ==
  /\ [][(hookKind \in ScrollKinds
          /\ (plast' = "frame_update" \/ transform' # transform))
          => isVisibleRef /\ reported]_vars
  /\ [][(hookKind \in ScrollKinds /\ plast' = "intersect_out")
          => pending' = {} /\ rafIdRef' = 0 /\ transform' = transform]_vars
  /\ []((hookKind \in ScrollKinds /\ ~isVisibleRef) => pending = {})
  /\ [][(hookKind \in ScrollKinds /\ ~isVisibleRef /\ ~isVisibleRef')
          => transform' = transform]_vars

\* the element has been animated, was then reported as not intersecting,
\* and the page has scrolled since
C19_Witness ==
  /\ hookKind \in ScrollKinds /\ hookPhase = "mounted" /\ listening
  /\ reported /\ ~isVisibleRef
  /\ transform.form = "parallax"
  /\ plast = "scroll"

\* C20: a hook whose effect ran under the reduced-motion preference has no
\* observer, no scroll or mouse listener and no frame callback, and its
\* transform (style and imageStyle of the pointer hook) is the initial one.
C20_ReducedMotionStatic ==
  (hookKind \in Kinds /\ prefersReducedMotion) =>
    /\ ~observing /\ ~listening
    /\ pending = {} /\ rafIdRef = 0
    /\ transform = InitialTransform(hookKind)
    /\ tilt = InitialTilt

\* the effect ran under the preference, the preference has been switched
\* off since, and the page scrolled or the pointer moved
C20_Witness ==
  /\ prefersReducedMotion /\ ~mediaReduce /\ hookPhase = "mounted"
  /\ \/ hookKind \in ScrollKinds /\ plast = "scroll"
        /\ Intersects(hookKind, rectTop, rectHeight, innerHeight)
     \/ hookKind = "pointer" /\ plast = "mousemove"

\* ---- order within a frame ----

\* C21: the frame that triggers a fade also runs the progress step, for
\* this frame's elapsed time 0: it writes opacity 1 to the active layer and
\* 0 to the other one, with isFadingRef set and fadeStartRef at this
\* frame's clock reading; and the flag is raised by no frame other than
\* such a one, so never after a frame's progress step.
C21_OrderWithinFrame ==
  /\ [][last' = "tick_trigger" =>
          /\ isFadingRef' /\ fadeStartRef' = now
          /\ written' = <<OpacityOne, 0>>
          /\ opacity'[ActiveSlot] = OpacityOne /\ opacity'[OtherSlot] = 0]_vars
  /\ [][(last' \in TickKinds /\ ~isFadingRef /\ isFadingRef') =>
          /\ last' = "tick_trigger"
          /\ written' = <<OpacityOne, 0>>]_vars

\* a fade has been triggered on slot B, whose layer was fully shown by the
\* fade before: the triggering frame has written 1 and 0 again
C21_Witness ==
  /\ last = "tick_trigger" /\ activeIdxRef = 1 /\ run = 1
  /\ written = <<OpacityOne, 0>>
  /\ fadeFrom > 0

\* C22: while the reduced-motion branch is the one that ran, slot B is not
\* playing, and looping is enabled on A and disabled on B.
C22_SecondSlotUntouched ==
  (phase = "mounted" /\ shouldReduceMotion) =>
    /\ video["b"].paused
    /\ video["a"].loop /\ ~video["b"].loop

\* ---- the header (src/services/Header.tsx) ----

\* bound: the furthest scroll position, in pixels
MaxScrollY == 92

\* setIsScrolled(y > 24)
scrolledThreshold == 24
\* y > 80 && delta > 8: hide; delta < -8: reveal
hideThreshold == 80
deltaThreshold == 8
\* y < 24: reveal
revealThreshold == 24

ScrollPositions == 0..MaxScrollY

\* handleScroll without the reveal near the top of the page
Header_handleScroll_noTopReveal(y, hidden, lastY, reduce) ==
  LET delta == y - lastY
      h1 == IF y > hideThreshold /\ delta > deltaThreshold THEN TRUE ELSE hidden
      h2 == IF delta < 0 - deltaThreshold THEN FALSE ELSE h1
  IN [isScrolled |-> y > scrolledThreshold,
      isHidden |-> IF reduce THEN hidden ELSE h2,
      lastYRef |-> IF reduce THEN lastY ELSE y]

\* handleScroll at scroll position y: the three state updates in order, the
\* last one winning
Header_handleScroll(y, hidden, lastY, reduce) ==
  LET delta == y - lastY
      h1 == IF y > hideThreshold /\ delta > deltaThreshold THEN TRUE ELSE hidden
      h2 == IF delta < 0 - deltaThreshold THEN FALSE ELSE h1
      h3 == IF y < revealThreshold THEN FALSE ELSE h2
  IN [isScrolled |-> y > scrolledThreshold,
      isHidden |-> IF reduce THEN hidden ELSE h3,
      lastYRef |-> IF reduce THEN lastY ELSE y]

\* the header has mounted, at any scroll position, and the effect has run:
\* one direct call of handleScroll, then the listener
InitHeader ==
  /\ HeroIdle
  /\ ParallaxIdle
  /\ PreloaderIdle
  /\ ContactIdle
  /\ CountIdle
  /\ LenisIdle
  /\ scrollY \in ScrollPositions
  /\ headerReduce \in BOOLEAN
  /\ headerPhase = "mounted"
  /\ LET r == Header_handleScroll(scrollY, FALSE, 0, headerReduce)
     IN /\ isScrolled = r.isScrolled
        /\ isHidden = r.isHidden
        /\ lastYRef = r.lastYRef
  /\ hlast = "mount"

\* a scroll event: the page is at another position, and the listener runs
\* if it is registered
HeaderScroll ==
  /\ \E y \in ScrollPositions \ {scrollY} :
       /\ scrollY' = y
       /\ LET r == IF headerPhase = "mounted"
                   THEN Header_handleScroll(y, isHidden, lastYRef, headerReduce)
                   ELSE [isScrolled |-> isScrolled, isHidden |-> isHidden,
                         lastYRef |-> lastYRef]
          IN /\ isScrolled' = r.isScrolled
             /\ isHidden' = r.isHidden
             /\ lastYRef' = r.lastYRef
  /\ hlast' = "scroll"
  /\ UNCHANGED <<headerReduce, headerPhase>>
  /\ UNCHANGED otherThanHeader

\* the header unmounts: the cleanup removes the listener
HeaderUnmount ==
  /\ headerPhase = "mounted"
  /\ headerPhase' = "unmounted"
  /\ hlast' = "cleanup"
  /\ UNCHANGED <<scrollY, isScrolled, isHidden, lastYRef, headerReduce>>
  /\ UNCHANGED otherThanHeader

NextHeader ==
  \/ HeaderScroll
  \/ HeaderUnmount

SpecHeader == InitHeader /\ [][NextHeader]_vars

\* C23: with reduced motion off, a scroll event hides the shown header only
\* at y > 80 with a delta above 8 from the position of the event before,
\* shows it whenever the delta is under -8 or y < 24, and otherwise leaves
\* it as it was; after every event a hidden header has y >= 24, and
\* isScrolled is y > 24.
C23_HideReveal ==
  /\ [][(hlast' = "scroll" /\ headerPhase = "mounted" /\ ~headerReduce) =>
          LET y == scrollY'
              delta == scrollY' - scrollY
          IN /\ (~isHidden /\ isHidden') => (y > 80 /\ delta > 8)
             /\ (delta < 0 - 8 \/ y < 24) => ~isHidden'
             /\ (~(y > 80 /\ delta > 8) /\ ~(delta < 0 - 8 \/ y < 24))
                  => isHidden' = isHidden]_vars
  /\ []((headerPhase = "mounted" /\ ~headerReduce) =>
          /\ isHidden => scrollY >= 24
          /\ isScrolled <=> scrollY > 24)

\* the header was hidden further down and the page has come up in small
\* steps to y = 24: still hidden, and not scrolled
C23_Witness ==
  /\ headerPhase = "mounted" /\ ~headerReduce
  /\ hlast = "scroll" /\ scrollY = 24
  /\ isHidden /\ ~isScrolled

\* ---- the preloader (src/Preloader.tsx) ----

\* bound: the clock reading the preloader's model stops at
PreloaderHorizon == 30
\* bound: how long after it is due a timer callback may run
MaxTimerLate == 2

\* setTimeout(..., 2000), in units of 100 ms
exitDelay == 20
\* setTimeout(..., 500)
hideDelay == 5

TimerKinds == {"timer_outer", "timer_inner"}

\* an outer callback that hides the preloader at once
onExitTimer_hideAtOnce(t, ts) ==
  [isExiting |-> TRUE, isVisible |-> FALSE, timers |-> ts]

\* the callback of the outer timer, run at time t with ts the other pending
\* timers: setIsExiting(true) and the inner setTimeout
onExitTimer(t, ts) ==
  [isExiting |-> TRUE, isVisible |-> TRUE,
   timers |-> ts \cup {<<"inner", t + hideDelay>>}]

\* the cleanup: clearTimeout(timer), timer being the outer one
preloaderCleanup(ts) == {x \in ts : x[1] # "outer"}

\* the preloader has mounted and its effect has set the outer timer
InitPreloader ==
  /\ HeroIdle
  /\ ParallaxIdle
  /\ HeaderIdle
  /\ ContactIdle
  /\ CountIdle
  /\ LenisIdle
  /\ ptime = 0
  /\ isVisible = TRUE
  /\ isExiting = FALSE
  /\ timers = {<<"outer", exitDelay>>}
  /\ exitAt = 0 - 1
  /\ preloaderPhase = "mounted"
  /\ plLast = "mount"

\* 100 ms pass; a timer callback is at most MaxTimerLate late
PreloaderAdvance ==
  /\ ptime < PreloaderHorizon
  /\ \A x \in timers : ptime < x[2] + MaxTimerLate
  /\ ptime' = ptime + 1
  /\ plLast' = "advance"
  /\ UNCHANGED <<isVisible, isExiting, timers, exitAt, preloaderPhase>>
  /\ UNCHANGED otherThanPreloader

\* the outer timer's callback runs
ExitTimerFires ==
  /\ \E x \in timers :
       /\ x[1] = "outer"
       /\ ptime >= x[2]
       /\ LET r == onExitTimer(ptime, timers \ {x})
          IN /\ timers' = r.timers
             /\ isExiting' = IF preloaderPhase = "mounted"
                             THEN r.isExiting ELSE isExiting
             /\ isVisible' = IF preloaderPhase = "mounted"
                             THEN r.isVisible ELSE isVisible
  /\ exitAt' = ptime
  /\ plLast' = "timer_outer"
  /\ UNCHANGED <<ptime, preloaderPhase>>
  /\ UNCHANGED otherThanPreloader

\* the inner timer's callback runs: setIsVisible(false), which React drops
\* when the component is gone
HideTimerFires ==
  /\ \E x \in timers :
       /\ x[1] = "inner"
       /\ ptime >= x[2]
       /\ timers' = timers \ {x}
  /\ isVisible' = IF preloaderPhase = "mounted" THEN FALSE ELSE isVisible
  /\ plLast' = "timer_inner"
  /\ UNCHANGED <<ptime, isExiting, exitAt, preloaderPhase>>
  /\ UNCHANGED otherThanPreloader

\* the preloader unmounts: the effect's cleanup
PreloaderUnmount ==
  /\ preloaderPhase = "mounted"
  /\ preloaderPhase' = "unmounted"
  /\ timers' = preloaderCleanup(timers)
  /\ plLast' = "cleanup"
  /\ UNCHANGED <<ptime, isVisible, isExiting, exitAt>>
  /\ UNCHANGED otherThanPreloader

NextPreloader ==
  \/ PreloaderAdvance
  \/ ExitTimerFires
  \/ HideTimerFires
  \/ PreloaderUnmount

SpecPreloader == InitPreloader /\ [][NextPreloader]_vars

\* C24: a mounted preloader is visible and not exiting until 2000 ms have
\* passed and exiting once its timer has run (at most MaxTimerLate later);
\* it stays visible for 500 ms after it began to exit and is hidden once the
\* second timer has run; hidden implies exiting, and neither exiting nor
\* hidden is ever undone.
C24_PreloaderSequence ==
  /\ [](preloaderPhase = "mounted" =>
          /\ ptime < 20 => (isVisible /\ ~isExiting)
          /\ ptime > 20 + MaxTimerLate => isExiting
          /\ isExiting => (exitAt >= 20 /\ exitAt <= 20 + MaxTimerLate)
          /\ (isExiting /\ ptime < exitAt + 5) => isVisible
          /\ (isExiting /\ ptime > exitAt + 5 + MaxTimerLate) => ~isVisible
          /\ ~isVisible => isExiting)
  /\ [][~isVisible => ~isVisible']_vars
  /\ [][isExiting => isExiting']_vars

\* the mounted preloader has gone through exiting and its second timer has
\* just hidden it
C24_Witness ==
  /\ preloaderPhase = "mounted" /\ plLast = "timer_inner"
  /\ isExiting /\ ~isVisible
  /\ ptime >= exitAt + 5

\* C29: once the preloader is unmounted no timer callback of it runs.
C29_NoTimerAfterUnmount ==
  preloaderPhase = "unmounted" => plLast \notin TimerKinds

\* ---- the contact form (Contact in src/App.tsx) ----

\* bound: services in a language's list
NumServices == 2
\* bound: submissions the model lets be in flight at once
MaxInFlight == 2

Languages == {"en", "et", "fi"}

\* what the user can type into a text field
FieldTexts == {"", "x"}
TextFields == {"name", "email", "phone", "message"}

\* translations[l].contact.services[i - 1]
serviceOf(l, i) == <<l, i>>

\* useState's initial form
InitialForm(l) ==
  [name |-> "", email |-> "", phone |-> "", service |-> serviceOf(l, 1),
   message |-> ""]

\* a language effect that starts the form afresh
resetService_wholeForm(prev, l) == InitialForm(l)

\* the updater of the language effect: { ...prev, service: ct.services[0] }
resetService(prev, l) == [prev EXCEPT !.service = serviceOf(l, 1)]

\* a submit button that is never disabled
submitEnabled_always(st) == TRUE

\* disabled={status === 'submitting'}
submitEnabled(st) == st # "submitting"

\* the form is rendered unless the success panel is
formRendered(st) == st # "success"

\* the form has mounted, in any language, and its effects have run
InitContact ==
  /\ HeroIdle
  /\ ParallaxIdle
  /\ HeaderIdle
  /\ PreloaderIdle
  /\ CountIdle
  /\ LenisIdle
  /\ lang \in Languages
  /\ formData = resetService(InitialForm(lang), lang)
  /\ status = "idle"
  /\ inflight = 0
  /\ clast = "mount"

\* the user edits a text field
EditField ==
  /\ formRendered(status)
  /\ \E f \in TextFields, t \in FieldTexts :
       /\ formData[f] # t
       /\ formData' = [formData EXCEPT ![f] = t]
  /\ clast' = "edit"
  /\ UNCHANGED <<lang, status, inflight>>
  /\ UNCHANGED otherThanContact

\* the user picks a service of the list shown
SelectService ==
  /\ formRendered(status)
  /\ \E i \in 1..NumServices :
       /\ formData.service # serviceOf(lang, i)
       /\ formData' = [formData EXCEPT !.service = serviceOf(lang, i)]
  /\ clast' = "select"
  /\ UNCHANGED <<lang, status, inflight>>
  /\ UNCHANGED otherThanContact

\* the language prop changes and the service effect runs
LanguageChange ==
  /\ \E l \in Languages \ {lang} :
       /\ lang' = l
       /\ formData' = resetService(formData, l)
  /\ clast' = "lang"
  /\ UNCHANGED <<status, inflight>>
  /\ UNCHANGED otherThanContact

\* handleSubmit up to its await
Submit ==
  /\ formRendered(status)
  /\ submitEnabled(status)
  /\ inflight < MaxInFlight
  /\ status' = "submitting"
  /\ inflight' = inflight + 1
  /\ clast' = "submit"
  /\ UNCHANGED <<lang, formData>>
  /\ UNCHANGED otherThanContact

\* sendToKommo settles with a boolean, and handleSubmit goes on
KommoSettles ==
  /\ inflight > 0
  /\ \E result \in BOOLEAN :
       status' = "success"
  /\ inflight' = inflight - 1
  /\ clast' = "settle"
  /\ UNCHANGED <<lang, formData>>
  /\ UNCHANGED otherThanContact

\* the 'send another' button of the success panel
SendAnother ==
  /\ status = "success"
  /\ status' = "idle"
  /\ clast' = "again"
  /\ UNCHANGED <<lang, formData, inflight>>
  /\ UNCHANGED otherThanContact

NextContact ==
  \/ EditField
  \/ SelectService
  \/ LanguageChange
  \/ Submit
  \/ KommoSettles
  \/ SendAnother

\* sendToKommo settles: its promise hangs on a 1500 ms timer only
SpecContact ==
  /\ InitContact
  /\ [][NextContact]_vars
  /\ WF_vars(KommoSettles)

\* C25: a change of language sets the selected service to the first one of
\* the new language and leaves the four text fields and the status alone.
C25_LanguageChange ==
  [][clast' = "lang" =>
       /\ formData'.service = serviceOf(lang', 1)
       /\ \A f \in TextFields : formData'[f] = formData[f]
       /\ status' = status]_vars

\* the language has changed under a filled-in form while a submission was
\* in flight
C25_Witness ==
  /\ clast = "lang" /\ status = "submitting"
  /\ \A f \in TextFields : formData[f] = "x"
  /\ formData.service = serviceOf(lang, 1)

\* C26: the status changes only from idle to submitting by a submit, from
\* submitting to success when sendToKommo settles, and from success to
\* idle by 'send another'; at most one submission is in flight; and a form
\* that is submitting reaches success.
C26_StatusMachine ==
  /\ [][status' # status =>
          \/ status = "idle" /\ status' = "submitting" /\ clast' = "submit"
          \/ status = "submitting" /\ status' = "success" /\ clast' = "settle"
          \/ status = "success" /\ status' = "idle" /\ clast' = "again"]_vars
  /\ [](inflight <= 1)
  /\ [](inflight = 1 <=> status = "submitting")
  /\ (status = "submitting") ~> (status = "success")

\* the submission of a filled-in form has settled
C26_Witness ==
  /\ status = "success" /\ clast = "settle" /\ inflight = 0
  /\ \A f \in TextFields : formData[f] = "x"

\* ---- CountUp (src/App.tsx) ----

\* bound: the clock reading CountUp's model stops at
CountHorizon == 18
\* bound: animation starts the model counts up to
MaxStarts == 2

\* durationMs = 1200, in units of 100 ms
durationMs == 12

\* values the metrics pass
CountTargets == {10, 24}

\* Math.min(1, (now - startT) / durationMs), as a numerator over durationMs
countT(now0, startT0) == Min(durationMs, now0 - startT0)

\* t * t * (3 - 2 * t), as a numerator over durationMs^3
countEased(t) == t * t * (3 * durationMs - 2 * t)

\* Math.round(value * eased): the nearest integer, halves upwards
countDisplay(value, t) ==
  LET den == durationMs * durationMs * durationMs
  IN (2 * value * countEased(t) + den) \div (2 * den)

\* a start without its guard
countStart_unguarded(st, now0, startT0, raf, pend, n) ==
  [started |-> TRUE, startT |-> now0, raf |-> NewHandle(pend),
   pending |-> pend \cup {NewHandle(pend)}, starts |-> n + 1]

\* start(): once per effect run, it notes the time and requests a frame
countStart(st, now0, startT0, raf, pend, n) ==
  IF st
  THEN [started |-> st, startT |-> startT0, raf |-> raf, pending |-> pend,
        starts |-> n]
  ELSE [started |-> TRUE, startT |-> now0, raf |-> NewHandle(pend),
        pending |-> pend \cup {NewHandle(pend)}, starts |-> n + 1]

\* the CountUp has mounted, its ref is set and the effect has run with it
InitCount ==
  /\ HeroIdle
  /\ ParallaxIdle
  /\ HeaderIdle
  /\ PreloaderIdle
  /\ ContactIdle
  /\ LenisIdle
  /\ cuNow = 0
  /\ cuValue \in CountTargets
  /\ cuReduce \in BOOLEAN
  /\ display = IF cuReduce THEN cuValue ELSE 0
  /\ started = FALSE
  /\ cuStartT = 0
  /\ cuRaf = 0
  /\ cuPending = {}
  /\ cuObserving = ~cuReduce
  /\ cuStarts = 0
  /\ cuPhase = "mounted"
  /\ cuLast = "effect"

\* 100 ms pass
CountAdvance ==
  /\ cuNow < CountHorizon
  /\ cuNow' = cuNow + 1
  /\ cuLast' = "advance"
  /\ UNCHANGED <<cuValue, display, cuReduce, started, cuStartT, cuRaf,
                 cuPending, cuObserving, cuStarts, cuPhase>>
  /\ UNCHANGED otherThanCount

\* the observer delivers entries; start() if one of them is intersecting
CountIntersection ==
  /\ cuObserving
  /\ \E isIntersecting \in BOOLEAN :
       LET r == IF isIntersecting /\ cuStarts < MaxStarts
                THEN countStart(started, cuNow, cuStartT, cuRaf, cuPending,
                                cuStarts)
                ELSE [started |-> started, startT |-> cuStartT, raf |-> cuRaf,
                      pending |-> cuPending, starts |-> cuStarts]
       IN /\ started' = r.started
          /\ cuStartT' = r.startT
          /\ cuRaf' = r.raf
          /\ cuPending' = r.pending
          /\ cuStarts' = r.starts
          /\ cuLast' = IF isIntersecting THEN "intersect_in"
                       ELSE "intersect_out"
  /\ UNCHANGED <<cuNow, cuValue, display, cuReduce, cuObserving, cuPhase>>
  /\ UNCHANGED otherThanCount

\* a requested frame callback runs: tick(now), in a frame after the one
\* that requested it
CountFrame ==
  /\ \E id \in cuPending :
       LET t == countT(cuNow, cuStartT)
           more == t < durationMs
           h == NewHandle(cuPending \ {id})
       IN /\ display' = countDisplay(cuValue, t)
          /\ cuPending' = IF more THEN (cuPending \ {id}) \cup {h}
                          ELSE cuPending \ {id}
          /\ cuRaf' = IF more THEN h ELSE cuRaf
          /\ cuLast' = IF more THEN "frame" ELSE "frame_end"
  /\ UNCHANGED <<cuNow, cuValue, cuReduce, started, cuStartT, cuObserving,
                 cuStarts, cuPhase>>
  /\ UNCHANGED otherThanCount

\* the CountUp unmounts: the cleanup of an effect run that got that far
CountUnmount ==
  /\ cuPhase = "mounted"
  /\ cuPhase' = "unmounted"
  /\ cuPending' = IF ~cuReduce /\ cuRaf # 0 THEN cuPending \ {cuRaf}
                  ELSE cuPending
  /\ cuObserving' = FALSE
  /\ cuLast' = "cleanup"
  /\ UNCHANGED <<cuNow, cuValue, display, cuReduce, started, cuStartT, cuRaf,
                 cuStarts>>
  /\ UNCHANGED otherThanCount

NextCount ==
  \/ CountAdvance
  \/ CountIntersection
  \/ CountFrame
  \/ CountUnmount

SpecCount == InitCount /\ [][NextCount]_vars

\* C27: the animation is started at most once however often the element
\* is reported as intersecting; the number shown never decreases; a
\* started animation with no frame pending shows exactly the target, and
\* its last frame requests no other; at most one frame callback is
\* scheduled, and none after unmount.
C27_CountUp ==
  /\ [](cuStarts <= 1)
  /\ [][display' >= display]_vars
  /\ []((cuPhase = "mounted" /\ started /\ cuPending = {})
          => display = cuValue)
  /\ [][cuLast' = "frame_end" => (display' = cuValue /\ cuPending' = {})]_vars
  /\ [](Cardinality(cuPending) <= 1)
  /\ [](cuPhase = "unmounted" => cuPending = {})

\* the count has run to its end, and the element has been reported as
\* intersecting once more
C27_Witness ==
  /\ cuPhase = "mounted" /\ ~cuReduce
  /\ started /\ cuPending = {} /\ display = cuValue
  /\ cuLast = "intersect_in"

\* ---- bookkeeping of the parallax frame loops ----

\* C28: in the scroll hook, the section hook and the About video parallax
\* at most one frame callback is scheduled, the one rafIdRef names; after
\* a cleanup (unmount, or the re-run that ends in the reduced-motion
\* return) none is scheduled and the scroll listener and the observer are
\* gone.
C28_FrameBookkeeping ==
  hookKind \in FrameKinds =>
    /\ Cardinality(pending) <= 1
    /\ pending # {} => pending = {rafIdRef}
    /\ (hookPhase = "unmounted" \/ prefersReducedMotion) =>
         (pending = {} /\ ~observing /\ ~listening)

\* the video parallax effect has run again while the refs still said
\* "visible": its direct updateParallax() has requested a frame before the
\* new observer has reported anything
C28_Witness ==
  /\ hookKind = "video" /\ hookPhase = "mounted"
  /\ plast = "rerun" /\ ~prefersReducedMotion
  /\ isVisibleRef /\ ~reported
  /\ Cardinality(pending) = 1

\* ---------------------------------------------------------------------
\* The App effect: Lenis smooth scrolling and its frame loop (src/App.tsx)
\* ---------------------------------------------------------------------

LenisHorizon == 12

\* the effect body after the media query: with motion allowed it creates
\* the instance, stores it in lenisRef and requests the first frame
appEffect(reduce) ==
  IF reduce
  THEN [lenisRef |-> "null", scheduled |-> FALSE]
  ELSE [lenisRef |-> "live", scheduled |-> TRUE]

\* function raf(time): lenis.raf(time), then requestAnimationFrame(raf)
raf(ref, time) ==
  [lenisTime |-> time,
   onDestroyed |-> (ref = "destroyed"),
   scheduled |-> TRUE]

\* the cleanup the effect returns: lenis.destroy(); the requested frame
\* is not cancelled (its handle is not kept)
appCleanup(ref, requested) ==
  [lenisRef |-> "destroyed", scheduled |-> requested]

InitLenis ==
  /\ HeroIdle
  /\ ParallaxIdle
  /\ HeaderIdle
  /\ PreloaderIdle
  /\ ContactIdle
  /\ CountIdle
  /\ lnow = 0
  /\ lenisMedia \in BOOLEAN
  /\ lenisReduce = lenisMedia
  /\ lenisRef = appEffect(lenisReduce).lenisRef
  /\ lenisScheduled = appEffect(lenisReduce).scheduled
  /\ lenisTime = -1
  /\ rafAfterDestroy = FALSE
  /\ appPhase = "mounted"
  /\ lenisLast = "effect"

\* 100 ms pass
LenisAdvance ==
  /\ lnow < LenisHorizon
  /\ lnow' = lnow + 1
  /\ lenisLast' = "advance"
  /\ UNCHANGED <<lenisMedia, lenisReduce, lenisRef, lenisScheduled,
                 lenisTime, rafAfterDestroy, appPhase>>
  /\ UNCHANGED otherThanLenis

\* the browser runs the requested callback, in a frame later than the one
\* that requested it
LenisFrame ==
  /\ lenisScheduled
  /\ lnow > lenisTime
  /\ LET r == raf(lenisRef, lnow)
     IN /\ lenisTime' = r.lenisTime
        /\ lenisScheduled' = r.scheduled
        /\ rafAfterDestroy' = (rafAfterDestroy \/ r.onDestroyed)
  /\ lenisLast' = "raf"
  /\ UNCHANGED <<lnow, lenisMedia, lenisReduce, lenisRef, appPhase>>
  /\ UNCHANGED otherThanLenis

\* the user's preference changes; the effect has no dependencies and does
\* not run again
LenisMediaChange ==
  /\ appPhase = "mounted"
  /\ lenisMedia' = ~lenisMedia
  /\ lenisLast' = "media"
  /\ UNCHANGED <<lnow, lenisReduce, lenisRef, lenisScheduled, lenisTime,
                 rafAfterDestroy, appPhase>>
  /\ UNCHANGED otherThanLenis

\* App unmounts: the cleanup runs if the effect returned one
AppUnmount ==
  /\ appPhase = "mounted"
  /\ appPhase' = "unmounted"
  /\ LET c == IF lenisReduce
              THEN [lenisRef |-> lenisRef, scheduled |-> lenisScheduled]
              ELSE appCleanup(lenisRef, lenisScheduled)
     IN /\ lenisRef' = c.lenisRef
        /\ lenisScheduled' = c.scheduled
  /\ lenisLast' = "cleanup"
  /\ UNCHANGED <<lnow, lenisMedia, lenisReduce, lenisTime, rafAfterDestroy>>
  /\ UNCHANGED otherThanLenis

NextLenis ==
  \/ LenisAdvance
  \/ LenisFrame
  \/ LenisMediaChange
  \/ AppUnmount

SpecLenis == InitLenis /\ [][NextLenis]_vars

\* C30: once the cleanup has destroyed the Lenis instance no frame
\* callback of the loop is scheduled and lenis.raf is not called on it
\* again; and when the effect ran with reduced motion set, no instance
\* exists, no frame is scheduled and lenis.raf has never been called.
C30_LoopTeardown ==
  /\ lenisRef = "destroyed" => (~lenisScheduled /\ ~rafAfterDestroy)
  /\ lenisReduce =>
       (lenisRef = "null" /\ ~lenisScheduled /\ lenisTime = -1)
====
